---- MODULE Spec2Model ----
(***************************************************************************)
(* The sub-agent spawn-and-announce orchestrator of clawdbot:              *)
(*   - sessions_spawn (src/agents/tools/sessions-spawn-tool.ts, execute),  *)
(*   - runSubagentAnnounceFlow and the usage summary                       *)
(*     (subagent-announce.ts),                                             *)
(*   - the Subagent Registry's register / announce-claim operations.       *)
(*                                                                         *)
(* One invocation of execute is followed from its arguments to its result, *)
(* together with every Announce Flow started for its run.  JavaScript runs *)
(* the code between two awaits without interruption, so every action is    *)
(* "the awaited call settles (returns or raises) and the code runs to its  *)
(* next await or to its end".                                              *)
(*                                                                         *)
(* Text is a tuple of tokens (words; " " is a run of whitespace), so that  *)
(* String.includes, String.trim and concatenation are computed.  A value   *)
(* that may be undefined is <<>> (undefined) or <<v>>.                     *)
(***************************************************************************)
EXTENDS Integers, Sequences, FiniteSets, TLC

VARIABLES
    pc,            \* where execute() is suspended
    args,          \* the tool's options and the arguments of this call
    sp,            \* execute()'s local variables
    result,        \* <<>> until execute() returns, then <<its jsonResult>>
    gwlog,         \* every callGateway request issued, in order
    subagentRuns,  \* Subagent Registry: the registered runs
    announced,     \* Subagent Registry: the runIds whose announce is claimed
    claimLog,      \* every announce-claim invocation and what it returned
    flow,          \* the Announce Flow invocations, by who launched them
    racer          \* the out-of-band callers of the announce claim

vars == <<pc, args, sp, result, gwlog, subagentRuns, announced, claimLog, flow, racer>>

(***************************************************************************)
(* Bounds.                                                                 *)
(***************************************************************************)
\* Out-of-band callers that race the synchronous path for the claim.
MaxRacers == 2
\* The largest timeoutSeconds argument tried.
MaxTimeoutSeconds == 1

\* What an await settles with: a value, or a thrown one.
Returned(S) == { [raised |-> FALSE, value |-> v] : v \in S }
Raised(S) == { [raised |-> TRUE, value |-> e] : e \in S }

(***************************************************************************)
(* Optional values and text.                                               *)
(***************************************************************************)
None == <<>>
Some(v) == <<v>>
IsSome(o) == o # <<>>
Get(o) == o[1]

\* String.prototype.includes, on tokens.
Includes(text, pat) ==
    \E k \in 1..(Len(text) - Len(pat) + 1) : SubSeq(text, k, k + Len(pat) - 1) = pat

RECURSIVE TrimStart(_)
TrimStart(text) ==
    IF text # <<>> /\ Head(text) = " " THEN TrimStart(Tail(text)) ELSE text

RECURSIVE TrimEnd(_)
TrimEnd(text) ==
    IF text # <<>> /\ text[Len(text)] = " "
    THEN TrimEnd(SubSeq(text, 1, Len(text) - 1))
    ELSE text

\* String.prototype.trim.
Trim(text) == TrimEnd(TrimStart(text))

(***************************************************************************)
(* What a failed await throws, and the message execute() takes from it.    *)
(***************************************************************************)
ErrorOf(message) == [kind |-> "Error", message |-> message]
StringThrown(message) == [kind |-> "string", message |-> message]
OtherThrown == [kind |-> "other", message |-> <<>>]

\* err instanceof Error ? err.message : typeof err === "string" ? err : "error"
MessageText(err) ==
    IF err.kind = "Error" THEN err.message
    ELSE IF err.kind = "string" THEN err.message
    ELSE <<"error">>

\* messageText.includes("invalid model") || messageText.includes("model not allowed")
\* (Faulty variant: every patch failure taken as recoverable.)
RecoverableAlways(messageText) == TRUE
Recoverable(messageText) ==
    \/ Includes(messageText, <<"invalid", "model">>)
    \/ Includes(messageText, <<"model", "not", "allowed">>)

\* messageText.includes("gateway timeout") ? "timeout" : "error"
WaitFailureStatus(messageText) ==
    IF Includes(messageText, <<"gateway", "timeout">>) THEN "timeout" ELSE "error"

(***************************************************************************)
(* Session keys: a key is the tuple of its ":"-separated parts.            *)
(***************************************************************************)
mainKey == <<"main">>
alias == <<"main">>

\* routing/session-key: agent:<agentId>:<rest...>
parseAgentSessionKey(key) ==
    IF Len(key) >= 3 /\ key[1] = "agent"
    THEN Some([agentId |-> key[2], rest |-> SubSeq(key, 3, Len(key))])
    ELSE None

isSubagentSessionKey(key) ==
    \/ key # <<>> /\ key[1] = "subagent"
    \/ /\ IsSome(parseAgentSessionKey(key))
       /\ Get(parseAgentSessionKey(key)).rest[1] = "subagent"

normalizeAgentId(parsed) == IF IsSome(parsed) THEN Get(parsed).agentId ELSE "main"

resolveInternalSessionKey(key) == IF key = <<"main">> \/ key = mainKey THEN alias ELSE key

resolveDisplaySessionKey(key) == IF key = alias \/ key = mainKey THEN <<"main">> ELSE key

\* typeof requesterSessionKey === "string" && isSubagentSessionKey(requesterSessionKey)
\* (Faulty variant: the sub-agent check left out.)
IsNestedSpawnUnchecked(requesterSessionKey) == FALSE
IsNestedSpawn(requesterSessionKey) ==
    requesterSessionKey # <<>> /\ isSubagentSessionKey(requesterSessionKey)

(***************************************************************************)
(* The arguments tried, and what the gateway may answer.                   *)
(***************************************************************************)
RequesterKeys ==
    { <<>>,                                   \* opts.agentSessionKey undefined
      <<"main">>,
      <<"discord", "group", "req">>,
      <<"agent", "main", "subagent", "u0">> }

Models == { <<>>, <<"claude-haiku-4-5">> }

\* params.timeoutSeconds: its JavaScript type, and a finite number in tenths.
Tenths ==
    { 0 - 15, 5, 10 * MaxTimeoutSeconds + 5 } \cup { 10 * k : k \in 0..MaxTimeoutSeconds }
TimeoutParams ==
    { [type |-> "undefined", tenths |-> 0], [type |-> "string", tenths |-> 0],
      [type |-> "nonfinite", tenths |-> 0] }
    \cup { [type |-> "finite", tenths |-> t] : t \in Tenths }

\* params.cleanup; "" is the argument left out.
CleanupParams == { "delete", "keep", "purge", "" }

Args ==
    [ agentSessionKey : RequesterKeys,
      sandboxed : BOOLEAN,
      model : Models,
      timeoutSeconds : TimeoutParams,
      cleanup : CleanupParams ]

task == <<"do", "thing">>

PatchFailures ==
    { ErrorOf(<<"invalid", "model", ":", "bad-model">>),
      StringThrown(<<"model", "not", "allowed">>),
      ErrorOf(<<"gateway", "closed">>),
      OtherThrown }
GatewayFailures == { ErrorOf(<<"gateway", "closed">>), OtherThrown }
WaitFailures ==
    { ErrorOf(<<"gateway", "timeout", "after", "ms">>), ErrorOf(<<"gateway", "closed">>) }

\* agent: { runId? }
AgentResponses == { Some("run-1"), Some(""), None }
\* agent.wait: { status?, error? }
WaitStatuses == { Some("ok"), Some("timeout"), Some("error"), Some("pending"), None }
WaitErrors == { None, Some(<<"boom">>) }
WaitResponses ==
    { w \in [status : WaitStatuses, error : WaitErrors] :
        IsSome(w.error) => w.status \in { Some("timeout"), Some("error") } }
\* readLatestAssistantReply: string | undefined
Replies == { None, Some(<<>>), Some(<<"result">>) }

Truthy(text) == IsSome(text) /\ Get(text) # <<>>

(***************************************************************************)
(* callGateway requests.                                                   *)
(***************************************************************************)
Call(by, id, method, params) ==
    [by |-> by, id |-> id, method |-> method, params |-> params]

Method(n) == gwlog[n].method
Calls(method) == { n \in 1..Len(gwlog) : gwlog[n].method = method }

(***************************************************************************)
(* execute(): parameter normalisation (lines 51-66).                       *)
(***************************************************************************)
Max(a, b) == IF a >= b THEN a ELSE b
Min(a, b) == IF a <= b THEN a ELSE b

\* params.cleanup === "keep" || params.cleanup === "delete" ? params.cleanup : "keep"
\* (Faulty variant: "keep" only when named, everything else deleted.)
CleanupOfKeepOnly(p) == IF p = "keep" THEN "keep" ELSE "delete"
CleanupOf(p) == IF p = "keep" \/ p = "delete" THEN p ELSE "keep"

\* typeof n === "number" && Number.isFinite(n) ? Math.max(0, Math.floor(n)) : 0
\* (Faulty variant: the argument rounded up.)
TimeoutSecondsOfRoundedUp(p) == IF p.type = "finite" THEN Max(0, (p.tenths + 9) \div 10) ELSE 0
TimeoutSecondsOf(p) == IF p.type = "finite" THEN Max(0, p.tenths \div 10) ELSE 0

InitSp ==
    [ cleanup |-> "keep",
      timeoutSeconds |-> 0,
      timeoutMs |-> 0,
      modelWarning |-> None,
      modelApplied |-> FALSE,
      tagFailed |-> FALSE,          \* the spawnedBy patch raised
      patchErr |-> None,
      agentErr |-> None,            \* what the run start raised, if it did
      agentResponse |-> None,       \* <<the runId? the run start returned>>, if it did
      abortErr |-> None,            \* what chat.abort raised, if it did
      requesterInternalKey |-> <<>>,
      requesterDisplayKey |-> <<>>,
      childSessionKey |-> <<>>,
      childIdem |-> "",
      childRunId |-> "",
      waitStatus |-> None,
      waitError |-> None,
      replyText |-> None ]

\* jsonResult(payload): the fields a payload may carry; None is "not there".
Payload(status) ==
    [ status |-> status,
      error |-> None,
      childSessionKey |-> None,
      runId |-> None,
      reply |-> None,
      modelApplied |-> None,
      warning |-> None ]

\* modelApplied: model ? modelApplied : undefined, warning: modelWarning
WithModelStatus(payload, a, s) ==
    [payload EXCEPT !.modelApplied = IF a.model # <<>> THEN Some(s.modelApplied) ELSE None,
                    !.warning = s.modelWarning]

(***************************************************************************)
(* Subagent Registry (subagent-registry.ts).                               *)
(***************************************************************************)
\* registerSubagentRun(run): records the run under its runId, overwriting.
registerSubagentRun(runs, run) ==
    { r \in runs : r.runId # run.runId } \cup { run }

\* beginSubagentAnnounce(runId): true the first time for a runId, false after.
\* (Faulty variant: the claim granted to every caller.)
beginSubagentAnnounceUnguarded(claimed, runId) == TRUE
beginSubagentAnnounce(claimed, runId) == runId \notin claimed

(***************************************************************************)
(* Announce Flow (subagent-announce.ts, runSubagentAnnounceFlow).          *)
(***************************************************************************)
ANNOUNCE_SKIP == <<"ANNOUNCE_SKIP">>

\* sessions-send-helpers: the reply is the suppression sentinel.
isAnnounceSkip(text) == text = ANNOUNCE_SKIP

\* !announceReply || !announceReply.trim() || isAnnounceSkip(announceReply)
\* (Faulty variant: only the missing or empty reply suppressed.)
SuppressedOnlyEmpty(announceReply) == ~Truthy(announceReply)
Suppressed(announceReply) ==
    \/ ~Truthy(announceReply)
    \/ Trim(Get(announceReply)) = <<>>
    \/ isAnnounceSkip(Get(announceReply))

AnnounceReplies ==
    { None, Some(<<>>), Some(<<" ">>), Some(ANNOUNCE_SKIP),
      Some(<<" ", "announce", "now", " ">>) }

\* resolveAnnounceTarget: a key that names its provider and chat is its own
\* target; the main session's target is its last provider/address on file.
ExplicitTarget(displayKey) ==
    IF Len(displayKey) = 3 /\ displayKey[2] = "group"
    THEN Some([provider |-> displayKey[1], to |-> <<"channel", displayKey[3]>>])
    ELSE None
ListedTargets == { None, Some([provider |-> "whatsapp", to |-> <<"+123">>]) }

\* The session store's entry for a key, as loadSessionStore reads it: none, one
\* without token counts yet, one with them.
BareEntry == Some([inputTokens |-> None, outputTokens |-> None, totalTokens |-> None])
TokenEntry == Some([inputTokens |-> Some(1200), outputTokens |-> Some(300), totalTokens |-> None])
UsageEntries == { None, BareEntry, TokenEntry }

\* The remote run writes its usage asynchronously.  A timeline says what the
\* store holds for the child session until the token counts are written
\* (no entry, or an entry without counts) and which read is the first to find
\* them: 0 the initial read, k the k-th re-read, MaxPollAttempts + 1 none of the
\* reads the loop makes.
MaxPollAttempts == 4
UsageTimelines ==
    { [before |-> "bare", appearsAt |-> k] : k \in 0..(MaxPollAttempts + 1) }
    \cup { [before |-> "absent", appearsAt |-> k] : k \in { 2, MaxPollAttempts + 1 } }

\* loadSessionStore(storePath)[sessionKey] at the reads-th read after the first.
loadSessionStore(timeline, reads) ==
    IF reads >= timeline.appearsAt THEN TokenEntry
    ELSE IF timeline.before = "absent" THEN None
    ELSE BareEntry

\* hasTokens(): any of the three counts is a number.
hasTokens(entry) ==
    /\ IsSome(entry)
    /\ \/ IsSome(Get(entry).totalTokens)
       \/ IsSome(Get(entry).inputTokens)
       \/ IsSome(Get(entry).outputTokens)

\* for (attempt = 0; attempt < 4; attempt += 1) { ...; if (hasTokens()) break; }
\* goes round again after the attempt-th re-read found entry.
\* (Faulty variant: the loop without its break.)
KeepPollingToTheEnd(attempt, entry) == attempt < MaxPollAttempts
KeepPolling(attempt, entry) == ~hasTokens(entry) /\ attempt < MaxPollAttempts

\* entry?.totalTokens ?? (input and output are numbers ? input + output : undefined)
TotalTokens(entry) ==
    IF ~IsSome(entry) THEN None
    ELSE IF IsSome(Get(entry).totalTokens) THEN Get(entry).totalTokens
    ELSE IF IsSome(Get(entry).inputTokens) /\ IsSome(Get(entry).outputTokens)
         THEN Some(Get(Get(entry).inputTokens) + Get(Get(entry).outputTokens))
         ELSE None

\* (value / unit).toFixed(1)
ToFixed1(value, unit) ==
    LET tenths == (value * 10 + unit \div 2) \div unit IN
    ToString(tenths \div 10) \o "." \o ToString(tenths % 10)

\* formatTokenCount(value)
formatTokenCount(value) ==
    IF value = 0 THEN "0"
    ELSE IF value >= 1000000 THEN ToFixed1(value, 1000000) \o "m"
    ELSE IF value >= 1000 THEN ToFixed1(value, 1000) \o "k"
    ELSE ToString(value)

\* typeof n === "number" ? formatTokenCount(n) : "n/a"
TokenText(n) == IF IsSome(n) THEN formatTokenCount(Get(n)) ELSE "n/a"

\* The tokens part of the summary (lines 466-475).
\* (Faulty variant: the counts never reported.)
TokensPartBlank(entry) == <<"tokens", "n/a">>
TokensPart(entry) ==
    IF IsSome(TotalTokens(entry))
    THEN << "tokens", formatTokenCount(Get(TotalTokens(entry))),
            "(in", TokenText(Get(entry).inputTokens),
            "/", "out", TokenText(Get(entry).outputTokens) \o ")" >>
    ELSE <<"tokens", "n/a">>

\* buildSubagentStatsLine: `Stats: ${parts.join(" \u2022 ")}` (the bullet written
\* "*" here), for a run whose
\* start and end times and whose model rates are not on file.
buildSubagentStatsLine(sessionKey, entry) ==
    <<"Stats:", "runtime", "n/a", "*">> \o TokensPart(entry)
    \o <<"*", "sessionKey">> \o sessionKey

\* statsLine ? `${announceReply.trim()}\n\n${statsLine}` : announceReply.trim()
\* (Faulty variant: the reply sent untrimmed.)
AnnounceMessageUntrimmed(announceReply, statsLine) == announceReply \o <<"\n\n">> \o statsLine
AnnounceMessage(announceReply, statsLine) ==
    IF statsLine # <<>>
    THEN Trim(announceReply) \o <<"\n\n">> \o statsLine
    ELSE Trim(announceReply)

NoParams ==
    [ childSessionKey |-> <<>>,
      childRunId |-> "",
      requesterSessionKey |-> <<>>,
      requesterDisplayKey |-> <<>>,
      timeoutMs |-> 0,
      cleanup |-> "keep",
      roundOneReply |-> None,
      waitForCompletion |-> None ]

NoFlow ==
    [ pc |-> "none",
      params |-> NoParams,
      reply |-> None,
      target |-> None,
      announceReply |-> None,       \* <<what runAgentStep returned>>, once it has
      attempt |-> 0,
      entry |-> None,
      usage |-> None,               \* the store's timeline the reads follow
      waited |-> None,              \* <<the status? the flow's agent.wait returned>>
      exit |-> "none" ]             \* how the try block was left

Flows == 0..MaxRacers
Racers == 1..MaxRacers

\* A step of the flow: the flow's record after it, and the requests it issued.
Step(f, calls) == [f |-> f, calls |-> calls]

\* finally { if (params.cleanup === "delete") await sessions.delete }
\* (Faulty variant: the delete issued only after the send went through.)
FinallyAfterSendOnly(id, f, exit) ==
    IF f.params.cleanup = "delete" /\ exit = "sent"
    THEN Step([f EXCEPT !.pc = "delete", !.exit = exit],
              << Call("flow", id, "sessions.delete",
                      [key |-> f.params.childSessionKey, deleteTranscript |-> TRUE]) >>)
    ELSE Step([f EXCEPT !.pc = "done", !.exit = exit], <<>>)
Finally(id, f, exit) ==
    IF f.params.cleanup = "delete"
    THEN Step([f EXCEPT !.pc = "delete", !.exit = exit],
              << Call("flow", id, "sessions.delete",
                      [key |-> f.params.childSessionKey, deleteTranscript |-> TRUE]) >>)
    ELSE Step([f EXCEPT !.pc = "done", !.exit = exit], <<>>)

\* catch { /* ignore failures */ }: what the try block raises ends in finally.
\* (Faulty variant: no catch block, the failure leaves the flow.)
Uncaught(id, f) == Step([f EXCEPT !.pc = "threw", !.exit = "raised"], <<>>)
Caught(id, f) == Finally(id, f, "raised")

\* await resolveAnnounceTarget({ sessionKey, displayKey })
ToTarget(id, f) ==
    Step([f EXCEPT !.pc = "target"],
         IF IsSome(ExplicitTarget(f.params.requesterDisplayKey))
         THEN <<>>
         ELSE << Call("flow", id, "sessions.list", [key |-> f.params.requesterDisplayKey]) >>)

\* if (!reply) reply = await readLatestAssistantReply(...)
ToReadAgain(id, f) ==
    IF ~Truthy(f.reply)
    THEN Step([f EXCEPT !.pc = "read2"],
              << Call("flow", id, "chat.history", [sessionKey |-> f.params.childSessionKey]) >>)
    ELSE ToTarget(id, f)

\* Math.min(params.timeoutMs, 60_000)
WaitCapMs == 60000
\* (Faulty variant: the caller's budget taken as it is.)
WaitMsUncapped(timeoutMs) == timeoutMs
WaitMs(timeoutMs) == Min(timeoutMs, WaitCapMs)

\* runSubagentAnnounceFlow(params), up to its first await.
runSubagentAnnounceFlow(id, params) ==
    LET f == [NoFlow EXCEPT !.params = params, !.reply = params.roundOneReply] IN
    IF ~Truthy(f.reply) /\ params.waitForCompletion # Some(FALSE)
    THEN Step([f EXCEPT !.pc = "wait"],
              << Call("flow", id, "agent.wait",
                      [runId |-> params.childRunId, timeoutMs |-> WaitMs(params.timeoutMs)]) >>)
    ELSE ToReadAgain(id, f)

\* await runAgentStep({ sessionKey: childSessionKey, ..., lane: "nested" })
ToAnnounceStep(id, f) ==
    Step([f EXCEPT !.pc = "step"],
         << Call("flow", id, "agent",
                 [sessionKey |-> f.params.childSessionKey,
                  message |-> <<"Sub-agent", "announce", "step.">>,
                  lane |-> "nested"]) >>)

\* if (!announceTarget) return; then the announce step (lines 575-591).
\* (Faulty variant: the announce step run without a target.)
AfterTargetUnchecked(id, f, announceTarget) ==
    ToAnnounceStep(id, [f EXCEPT !.target = announceTarget])
AfterTarget(id, f, announceTarget) ==
    IF ~IsSome(announceTarget)
    THEN Finally(id, f, "notarget")
    ELSE ToAnnounceStep(id, [f EXCEPT !.target = announceTarget])

\* await callGateway({ method: "send", ... })
\* (Faulty variant: the child session deleted before the send.)
ToSendAfterDelete(id, f, entry) ==
    Step([f EXCEPT !.pc = "send", !.entry = entry],
         << Call("flow", id, "sessions.delete",
                 [key |-> f.params.childSessionKey, deleteTranscript |-> TRUE]),
            Call("flow", id, "send",
                 [to |-> Get(f.target).to,
                  provider |-> Get(f.target).provider,
                  message |-> AnnounceMessage(Get(Get(f.announceReply)),
                                              buildSubagentStatsLine(
                                                  f.params.childSessionKey, entry))]) >>)
ToSend(id, f, entry) ==
    Step([f EXCEPT !.pc = "send", !.entry = entry],
         << Call("flow", id, "send",
                 [to |-> Get(f.target).to,
                  provider |-> Get(f.target).provider,
                  message |-> AnnounceMessage(Get(Get(f.announceReply)),
                                              buildSubagentStatsLine(
                                                  f.params.childSessionKey, entry))]) >>)

Apply(id, st) ==
    /\ flow' = [flow EXCEPT ![id] = st.f]
    /\ gwlog' = gwlog \o st.calls


\* agent.wait settles (lines 551-562).
FlowWaitSettles(id) ==
    /\ flow[id].pc = "wait"
    /\ \E out \in Returned(WaitStatuses) \cup Raised(GatewayFailures) :
         LET f == flow[id]
             g == [f EXCEPT !.waited = Some(out.value)] IN
         Apply(id, IF out.raised
                   THEN Caught(id, f)
                   ELSE IF out.value # Some("ok")
                   THEN Finally(id, g, "notok")
                   ELSE Step([g EXCEPT !.pc = "read"],
                             << Call("flow", id, "chat.history",
                                     [sessionKey |-> g.params.childSessionKey]) >>))
    /\ UNCHANGED <<pc, args, sp, result, subagentRuns, announced, claimLog, racer>>

\* readLatestAssistantReply after the wait settles (lines 560-569).
FlowReadSettles(id) ==
    /\ flow[id].pc = "read"
    /\ \E out \in Returned(Replies) \cup Raised(GatewayFailures) :
         LET f == flow[id] IN
         Apply(id, IF out.raised
                   THEN Caught(id, f)
                   ELSE ToReadAgain(id, [f EXCEPT !.reply = out.value]))
    /\ UNCHANGED <<pc, args, sp, result, subagentRuns, announced, claimLog, racer>>

\* The one more direct read settles (lines 565-574).
FlowReadAgainSettles(id) ==
    /\ flow[id].pc = "read2"
    /\ \E out \in Returned(Replies) \cup Raised(GatewayFailures) :
         LET f == flow[id] IN
         Apply(id, IF out.raised
                   THEN Caught(id, f)
                   ELSE ToTarget(id, [f EXCEPT !.reply = out.value]))
    /\ UNCHANGED <<pc, args, sp, result, subagentRuns, announced, claimLog, racer>>

\* resolveAnnounceTarget settles (lines 571-591).
FlowTargetSettles(id) ==
    /\ flow[id].pc = "target"
    /\ LET f == flow[id]
           explicit == ExplicitTarget(f.params.requesterDisplayKey) IN
       \E out \in (IF IsSome(explicit)
                   THEN Returned({explicit})
                   ELSE Returned(ListedTargets) \cup Raised(GatewayFailures)) :
         Apply(id, IF out.raised THEN Caught(id, f) ELSE AfterTarget(id, f, out.value))
    /\ UNCHANGED <<pc, args, sp, result, subagentRuns, announced, claimLog, racer>>

\* runAgentStep settles; buildSubagentStatsLine starts (lines 585-619, 407-418).
FlowStepSettles(id) ==
    /\ flow[id].pc = "step"
    /\ \E out \in Returned(AnnounceReplies) \cup Raised(GatewayFailures) :
         LET f == flow[id]
             g == [f EXCEPT !.announceReply = Some(out.value)] IN
         IF out.raised
         THEN Apply(id, Caught(id, f))
         ELSE IF Suppressed(out.value)
         THEN Apply(id, Finally(id, g, "suppressed"))
         ELSE \E timeline \in UsageTimelines :
                LET entry == loadSessionStore(timeline, 0)
                    h == [g EXCEPT !.usage = Some(timeline)] IN
                Apply(id, IF ~IsSome(entry) \/ hasTokens(entry)
                          THEN ToSend(id, h, entry)
                          ELSE Step([h EXCEPT !.pc = "poll", !.entry = entry], <<>>))
    /\ UNCHANGED <<pc, args, sp, result, subagentRuns, announced, claimLog, racer>>

\* One turn of waitForSessionUsage's loop: the delay ends and the store is read
\* again (lines 419-424); the summary and the send follow the last turn.
FlowPollTick(id) ==
    /\ flow[id].pc = "poll"
    /\ flow[id].attempt < MaxPollAttempts
    /\ LET entry == loadSessionStore(Get(flow[id].usage), flow[id].attempt + 1)
           f == [flow[id] EXCEPT !.attempt = @ + 1, !.entry = entry] IN
       Apply(id, IF KeepPolling(f.attempt, entry)
                 THEN Step(f, <<>>)
                 ELSE ToSend(id, f, entry))
    /\ UNCHANGED <<pc, args, sp, result, subagentRuns, announced, claimLog, racer>>

\* send settles (lines 609-622).
FlowSendSettles(id) ==
    /\ flow[id].pc = "send"
    /\ \E out \in Returned({None}) \cup Raised(GatewayFailures) :
         LET f == [flow[id] EXCEPT !.entry = None, !.attempt = 0, !.usage = None] IN
         Apply(id, IF out.raised
                   THEN Caught(id, f)
                   ELSE Finally(id, f, "sent"))
    /\ UNCHANGED <<pc, args, sp, result, subagentRuns, announced, claimLog, racer>>

\* sessions.delete settles (lines 623-634).
FlowDeleteSettles(id) ==
    /\ flow[id].pc = "delete"
    /\ \E out \in Returned({None}) \cup Raised(GatewayFailures) :
         Apply(id, Step([flow[id] EXCEPT !.pc = "done"], <<>>))
    /\ UNCHANGED <<pc, args, sp, result, subagentRuns, announced, claimLog, racer>>

(***************************************************************************)
(* sessions_spawn: execute() (sessions-spawn-tool.ts, lines 50-292).       *)
(* A continuation is where execute() is after a piece of code: suspended   *)
(* at pc with the requests it issued, or returned with a result.           *)
(***************************************************************************)
Suspend(at, s, calls) == [pc |-> at, sp |-> s, calls |-> calls, result |-> None]
Return(s, payload) == [pc |-> "returned", sp |-> s, calls |-> <<>>, result |-> Some(payload)]

\* Lines 143-157: the run start.
\* (Faulty variant: the gateway left to deliver the run's output itself.)
ToAgentDelivering(a, s) ==
    LET t == [s EXCEPT !.childIdem = "idem-1", !.childRunId = "idem-1"] IN
    Suspend("agent", t,
            << Call("execute", 0, "agent",
                    [message |-> task,
                     sessionKey |-> t.childSessionKey,
                     idempotencyKey |-> t.childIdem,
                     deliver |-> TRUE,
                     lane |-> "subagent"]) >>)
ToAgent(a, s) ==
    LET t == [s EXCEPT !.childIdem = "idem-1", !.childRunId = "idem-1"] IN
    Suspend("agent", t,
            << Call("execute", 0, "agent",
                    [message |-> task,
                     sessionKey |-> t.childSessionKey,
                     idempotencyKey |-> t.childIdem,
                     deliver |-> FALSE,
                     lane |-> "subagent"]) >>)

\* Lines 108-114: the model override is patched before the run starts.
\* (Faulty variant: the run started without the patch.)
ToModelPatchSkipped(a, s) == ToAgent(a, s)
ToModelPatch(a, s) ==
    IF a.model # <<>>
    THEN Suspend("modelPatch", s,
                 << Call("execute", 0, "sessions.patch",
                         [key |-> s.childSessionKey, field |-> "model", value |-> a.model]) >>)
    ELSE ToAgent(a, s)

\* Lines 97-107: the ownership tag of a sandboxed requester.
ToTagPatch(a, s) ==
    IF a.sandboxed = TRUE
    THEN Suspend("tagPatch", s,
                 << Call("execute", 0, "sessions.patch",
                         [key |-> s.childSessionKey, field |-> "spawnedBy",
                          value |-> s.requesterInternalKey]) >>)
    ELSE ToModelPatch(a, s)

\* Lines 104-107: the catch block of the spawnedBy patch is empty.
\* (Faulty variant: a failed spawnedBy patch ends the spawn with an error.)
AfterTagPatchFatal(a, s, out) ==
    IF out.raised
    THEN Return([s EXCEPT !.tagFailed = TRUE],
                [Payload("error") EXCEPT
                    !.error = Some(MessageText(out.value)),
                    !.childSessionKey = Some(s.childSessionKey)])
    ELSE ToModelPatch(a, s)
AfterTagPatch(a, s, out) == ToModelPatch(a, [s EXCEPT !.tagFailed = out.raised])

\* Lines 51-96.
Begin(a) ==
    LET s0 == [InitSp EXCEPT !.cleanup = CleanupOf(a.cleanup),
                             !.timeoutSeconds = TimeoutSecondsOf(a.timeoutSeconds),
                             !.timeoutMs = TimeoutSecondsOf(a.timeoutSeconds) * 1000]
        internal == IF a.agentSessionKey # <<>>
                    THEN resolveInternalSessionKey(a.agentSessionKey)
                    ELSE alias
        s1 == [s0 EXCEPT !.requesterInternalKey = internal,
                         !.requesterDisplayKey = resolveDisplaySessionKey(internal),
                         !.childSessionKey =
                             <<"agent", normalizeAgentId(parseAgentSessionKey(internal)),
                               "subagent", "uuid-1">>]
    IN  IF IsNestedSpawn(a.agentSessionKey)
        THEN Return(s0, [Payload("forbidden") EXCEPT
                            !.error = Some(<<"sessions_spawn", "is", "not", "allowed",
                                             "from", "sub-agent", "sessions">>)])
        ELSE ToTagPatch(a, s1)

\* Lines 115-135: the model patch settles.
AfterModelPatch(a, s, out) ==
    IF ~out.raised
    THEN ToAgent(a, [s EXCEPT !.modelApplied = TRUE])
    ELSE LET messageText == MessageText(out.value)
             t == [s EXCEPT !.patchErr = Some(out.value)] IN
         IF ~Recoverable(messageText)
         THEN Return(t, [Payload("error") EXCEPT
                            !.error = Some(messageText),
                            !.childSessionKey = Some(t.childSessionKey)])
         ELSE ToAgent(a, [t EXCEPT !.modelWarning = Some(messageText)])

\* Lines 176-184: the record handed to registerSubagentRun.
RunRecord(s) ==
    [ runId |-> s.childRunId,
      childSessionKey |-> s.childSessionKey,
      requesterSessionKey |-> s.requesterInternalKey,
      requesterDisplayKey |-> s.requesterDisplayKey,
      task |-> task,
      cleanup |-> s.cleanup ]

\* Lines 161-184: the registry after the run start settled; the catch block
\* returns before registerSubagentRun, a started run is registered.
\* (Faulty variant: only a run the caller waits for is registered.)
RegisteredWhenWaiting(runs, s, out) ==
    IF out.raised \/ s.timeoutSeconds = 0 THEN runs
    ELSE registerSubagentRun(runs, RunRecord(s))
Registered(runs, s, out) ==
    IF out.raised THEN runs ELSE registerSubagentRun(runs, RunRecord(s))

\* Lines 158-160: the gateway's runId when it is a non-empty string.
\* (Faulty variant: any string taken, the empty one too.)
RunIdOfAnyString(response, childIdem) ==
    IF IsSome(response) THEN Get(response) ELSE childIdem
RunIdOf(response, childIdem) ==
    IF IsSome(response) /\ Get(response) # "" THEN Get(response) ELSE childIdem

\* timeoutMs: timeoutMs + 2000
RpcSlackMs == 2000

\* Lines 158-208: the run start settles.
\* (Faulty variant: the wait issued whatever timeoutSeconds is.)
AfterAgentAlwaysWaits(a, s, out) ==
    IF out.raised
    THEN Return([s EXCEPT !.agentErr = Some(out.value)],
                [Payload("error") EXCEPT
                       !.error = Some(MessageText(out.value)),
                       !.childSessionKey = Some(s.childSessionKey),
                       !.runId = Some(s.childRunId)])
    ELSE LET t == [s EXCEPT !.childRunId = RunIdOf(out.value, s.childIdem),
                            !.agentResponse = Some(out.value)] IN
         Suspend("wait", t,
                 << Call("execute", 0, "agent.wait",
                         [runId |-> t.childRunId, timeoutMs |-> t.timeoutMs,
                          rpcTimeoutMs |-> t.timeoutMs + RpcSlackMs]) >>)
\* (Faulty variant: a failed run start not caught, the spawn goes on.)
AfterAgentFailureIgnored(a, s, out) ==
    LET t == [s EXCEPT !.agentErr = IF out.raised THEN Some(out.value) ELSE None,
                       !.agentResponse = IF out.raised THEN None ELSE Some(out.value),
                       !.childRunId = IF out.raised THEN s.childIdem
                                      ELSE RunIdOf(out.value, s.childIdem)] IN
    IF t.timeoutSeconds = 0
    THEN Return(t, WithModelStatus([Payload("accepted") EXCEPT
                                       !.childSessionKey = Some(t.childSessionKey),
                                       !.runId = Some(t.childRunId)], a, t))
    ELSE Suspend("wait", t,
                 << Call("execute", 0, "agent.wait",
                         [runId |-> t.childRunId, timeoutMs |-> t.timeoutMs,
                          rpcTimeoutMs |-> t.timeoutMs + RpcSlackMs]) >>)
AfterAgent(a, s, out) ==
    IF out.raised
    THEN Return([s EXCEPT !.agentErr = Some(out.value)],
                [Payload("error") EXCEPT
                       !.error = Some(MessageText(out.value)),
                       !.childSessionKey = Some(s.childSessionKey),
                       !.runId = Some(s.childRunId)])
    ELSE LET t == [s EXCEPT !.childRunId = RunIdOf(out.value, s.childIdem),
                            !.agentResponse = Some(out.value)] IN
         IF t.timeoutSeconds = 0
         THEN Return(t, WithModelStatus([Payload("accepted") EXCEPT
                                            !.childSessionKey = Some(t.childSessionKey),
                                            !.runId = Some(t.childRunId)], a, t))
         ELSE Suspend("wait", t,
                      << Call("execute", 0, "agent.wait",
                              [runId |-> t.childRunId, timeoutMs |-> t.timeoutMs,
                               rpcTimeoutMs |-> t.timeoutMs + RpcSlackMs]) >>)

\* Lines 209-267: agent.wait settles.
\* (Faulty variant: status "timeout" and "error" not told from "ok".)
AfterWaitUnbranched(a, s, out) ==
    IF out.raised
    THEN Return(s, [Payload(WaitFailureStatus(MessageText(out.value))) EXCEPT
                       !.error = Some(MessageText(out.value)),
                       !.childSessionKey = Some(s.childSessionKey),
                       !.runId = Some(s.childRunId)])
    ELSE Suspend("read", [s EXCEPT !.waitStatus = out.value.status,
                                   !.waitError = out.value.error],
                 << Call("execute", 0, "chat.history", [sessionKey |-> s.childSessionKey]) >>)
AfterWait(a, s, out) ==
    IF out.raised
    THEN Return(s, [Payload(WaitFailureStatus(MessageText(out.value))) EXCEPT
                       !.error = Some(MessageText(out.value)),
                       !.childSessionKey = Some(s.childSessionKey),
                       !.runId = Some(s.childRunId)])
    ELSE LET t == [s EXCEPT !.waitStatus = out.value.status,
                            !.waitError = out.value.error] IN
         IF t.waitStatus = Some("timeout")
         THEN Suspend("abort", t,
                      << Call("execute", 0, "chat.abort",
                              [sessionKey |-> t.childSessionKey, runId |-> t.childRunId]) >>)
         ELSE IF t.waitStatus = Some("error")
         THEN Return(t, WithModelStatus([Payload("error") EXCEPT
                           !.error = IF IsSome(t.waitError) THEN t.waitError
                                     ELSE Some(<<"agent", "error">>),
                           !.childSessionKey = Some(t.childSessionKey),
                           !.runId = Some(t.childRunId)], a, t))
         ELSE Suspend("read", t,
                      << Call("execute", 0, "chat.history",
                              [sessionKey |-> t.childSessionKey]) >>)

\* Lines 242-253: chat.abort settles, either way.
\* (Faulty variant: a failed abort reported as the spawn's error.)
AfterAbortReported(a, s, out) ==
    LET t == [s EXCEPT !.abortErr = IF out.raised THEN Some(out.value) ELSE None] IN
    Return(t, WithModelStatus([Payload(IF out.raised THEN "error" ELSE "timeout") EXCEPT
                                  !.error = IF out.raised THEN Some(MessageText(out.value))
                                            ELSE t.waitError,
                                  !.childSessionKey = Some(t.childSessionKey),
                                  !.runId = Some(t.childRunId)], a, t))
AfterAbort(a, s, out) ==
    LET t == [s EXCEPT !.abortErr = IF out.raised THEN Some(out.value) ELSE None] IN
    Return(t, WithModelStatus([Payload("timeout") EXCEPT
                                  !.error = t.waitError,
                                  !.childSessionKey = Some(t.childSessionKey),
                                  !.runId = Some(t.childRunId)], a, t))

\* Lines 269-281: the parameters of the flow execute() launches.
FlowParamsOf(s) ==
    [ childSessionKey |-> s.childSessionKey,
      childRunId |-> s.childRunId,
      requesterSessionKey |-> s.requesterInternalKey,
      requesterDisplayKey |-> s.requesterDisplayKey,
      timeoutMs |-> 30000,
      cleanup |-> s.cleanup,
      roundOneReply |-> s.replyText,
      waitForCompletion |-> None ]

\* Lines 268-282: if (beginSubagentAnnounce(childRunId)) void runSubagentAnnounceFlow(...)
\* (Faulty variant: the flow launched whatever the claim returned.)
LaunchUnclaimed(s, claim) == runSubagentAnnounceFlow(0, FlowParamsOf(s))
LaunchIfClaimed(s, claim) ==
    IF claim THEN runSubagentAnnounceFlow(0, FlowParamsOf(s)) ELSE Step(NoFlow, <<>>)

\* Lines 284-291.
OkResult(a, s) ==
    Return(s, WithModelStatus([Payload("ok") EXCEPT
                                  !.childSessionKey = Some(s.childSessionKey),
                                  !.runId = Some(s.childRunId),
                                  !.reply = s.replyText], a, s))

(***************************************************************************)
(* execute(): the actions.                                                 *)
(***************************************************************************)
Go(k) ==
    /\ pc' = k.pc
    /\ sp' = k.sp
    /\ result' = k.result
    /\ gwlog' = gwlog \o k.calls

\* The tool is called.
SpawnStart ==
    /\ pc = "idle"
    /\ Go(Begin(args))
    /\ UNCHANGED <<args, subagentRuns, announced, claimLog, flow, racer>>

\* The spawnedBy patch settles; its failure is ignored.
SpawnTagPatchSettles ==
    /\ pc = "tagPatch"
    /\ \E out \in Returned({None}) \cup Raised(GatewayFailures) : Go(AfterTagPatch(args, sp, out))
    /\ UNCHANGED <<args, subagentRuns, announced, claimLog, flow, racer>>

SpawnModelPatchSettles ==
    /\ pc = "modelPatch"
    /\ \E out \in Returned({None}) \cup Raised(PatchFailures) : Go(AfterModelPatch(args, sp, out))
    /\ UNCHANGED <<args, subagentRuns, announced, claimLog, flow, racer>>

\* The run start settles; a started run is registered (lines 176-184).
SpawnAgentSettles ==
    /\ pc = "agent"
    /\ \E out \in Returned(AgentResponses) \cup Raised(GatewayFailures) :
         LET k == AfterAgent(args, sp, out) IN
         /\ Go(k)
         /\ subagentRuns' = Registered(subagentRuns, k.sp, out)
    /\ UNCHANGED <<args, announced, claimLog, flow, racer>>

SpawnWaitSettles ==
    /\ pc = "wait"
    /\ \E out \in Returned(WaitResponses) \cup Raised(WaitFailures) : Go(AfterWait(args, sp, out))
    /\ UNCHANGED <<args, subagentRuns, announced, claimLog, flow, racer>>

SpawnAbortSettles ==
    /\ pc = "abort"
    /\ \E out \in Returned({None}) \cup Raised(GatewayFailures) : Go(AfterAbort(args, sp, out))
    /\ UNCHANGED <<args, subagentRuns, announced, claimLog, flow, racer>>

\* readLatestAssistantReply settles (lines 265-291).  The await is in no try
\* block: what it raises leaves execute() as a rejected promise.
SpawnReadSettles ==
    /\ pc = "read"
    /\ \E out \in Returned(Replies) \cup Raised(GatewayFailures) :
         IF out.raised
         THEN /\ pc' = "threw"
              /\ UNCHANGED <<sp, result, gwlog, announced, claimLog, flow>>
         ELSE LET s == [sp EXCEPT !.replyText = out.value]
                  claim == beginSubagentAnnounce(announced, s.childRunId)
                  st == LaunchIfClaimed(s, claim)
                  k == OkResult(args, s)
              IN  /\ announced' = announced \cup {s.childRunId}
                  /\ claimLog' = Append(claimLog, [by |-> 0, runId |-> s.childRunId, ok |-> claim])
                  /\ flow' = [flow EXCEPT ![0] = st.f]
                  /\ gwlog' = gwlog \o st.calls
                  /\ pc' = k.pc
                  /\ sp' = k.sp
                  /\ result' = k.result
    /\ UNCHANGED <<args, subagentRuns, racer>>

(***************************************************************************)
(* An out-of-band completion path: another caller of the announce claim    *)
(* for a registered run, which launches the flow when it wins the claim.   *)
(***************************************************************************)
\* The wait budget of a caller that has the flow wait for the run itself.
RacerTimeoutMs == 90000
RacerParams(run, waitForCompletion) ==
    [ childSessionKey |-> run.childSessionKey,
      childRunId |-> run.runId,
      requesterSessionKey |-> run.requesterSessionKey,
      requesterDisplayKey |-> run.requesterDisplayKey,
      timeoutMs |-> IF waitForCompletion = Some(FALSE) THEN 30000 ELSE RacerTimeoutMs,
      cleanup |-> run.cleanup,
      roundOneReply |-> None,
      waitForCompletion |-> waitForCompletion ]

RacerClaims(r) ==
    /\ racer[r] = "idle"
    /\ \A q \in Racers : q < r => racer[q] = "done"
    /\ \E run \in subagentRuns, waitForCompletion \in { None, Some(FALSE) } :
         LET claim == beginSubagentAnnounce(announced, run.runId)
             st == IF claim
                   THEN runSubagentAnnounceFlow(r, RacerParams(run, waitForCompletion))
                   ELSE Step(NoFlow, <<>>)
         IN  /\ announced' = announced \cup {run.runId}
             /\ claimLog' = Append(claimLog, [by |-> r, runId |-> run.runId, ok |-> claim])
             /\ Apply(r, st)
    /\ racer' = [racer EXCEPT ![r] = "done"]
    /\ UNCHANGED <<pc, args, sp, result, subagentRuns>>

(***************************************************************************)
(* Specifications.                                                         *)
(***************************************************************************)
InitWith(A) ==
    /\ pc = "idle"
    /\ args \in A
    /\ sp = InitSp
    /\ result = None
    /\ gwlog = <<>>
    /\ subagentRuns = {}
    /\ announced = {}
    /\ claimLog = <<>>
    /\ flow = [id \in Flows |-> NoFlow]
    /\ racer = [r \in Racers |-> "idle"]

\* The calls checked: the ownership tag does not depend on the cleanup argument,
\* so a sandboxed requester is given its two valid values only.
SpawnArgs == { a \in Args : a.sandboxed => a.cleanup \in { "delete", "keep" } }

Init == InitWith(SpawnArgs)

\* The calls the race is checked on: their other arguments are left out.
RaceArgs ==
    { a \in Args :
        /\ a.agentSessionKey \in { <<"main">>, <<"agent", "main", "subagent", "u0">> }
        /\ a.sandboxed = (a.model # <<>>)
        /\ a.sandboxed => a.cleanup = "keep"
        /\ a.cleanup \in { "delete", "keep" }
        /\ a.timeoutSeconds \in
             IF a.sandboxed
             THEN { [type |-> "finite", tenths |-> 0] }
             ELSE { [type |-> "undefined", tenths |-> 0] }
                  \cup { [type |-> "finite", tenths |-> t] : t \in { 0, 10 } } }

InitRace == InitWith(RaceArgs)

SpawnStep ==
    \/ SpawnTagPatchSettles
    \/ SpawnModelPatchSettles
    \/ SpawnAgentSettles
    \/ SpawnWaitSettles
    \/ SpawnAbortSettles
    \/ SpawnReadSettles

FlowStep(id) ==
    \/ FlowWaitSettles(id)
    \/ FlowReadSettles(id)
    \/ FlowReadAgainSettles(id)
    \/ FlowTargetSettles(id)
    \/ FlowStepSettles(id)
    \/ FlowPollTick(id)
    \/ FlowSendSettles(id)
    \/ FlowDeleteSettles(id)

Next ==
    \/ SpawnStart
    \/ SpawnStep
    \/ \E id \in Flows : FlowStep(id)

\* The program: execute() is the only caller of the announce claim.
Spec == Init /\ [][Next]_vars

\* The calls progress is checked on: a requester of each kind of announce
\* target, with and without the two patches, either cleanup, waited for or not.
LiveArgs ==
    { a \in Args :
        /\ a.agentSessionKey \in { <<"main">>, <<"discord", "group", "req">> }
        /\ a.sandboxed = (a.model # <<>>)
        /\ a.cleanup \in { "delete", "keep" }
        /\ a.timeoutSeconds \in
             { [type |-> "finite", tenths |-> t] :
                 t \in IF a.sandboxed THEN { 0 } ELSE { 0, 10 * MaxTimeoutSeconds } } }

InitLive == InitWith(LiveArgs)

\* Every gateway request carries a timeout, so each await settles, and the
\* event loop then runs the code that waited for it.
SpecLive ==
    /\ InitLive /\ [][Next]_vars
    /\ WF_vars(SpawnStart \/ SpawnStep)
    /\ \A id \in Flows : WF_vars(FlowStep(id))

NextRace ==
    \/ Next
    \/ \E r \in Racers : RacerClaims(r)

\* The program with out-of-band callers racing for the claim.
SpecRace == InitRace /\ [][NextRace]_vars

(***************************************************************************)
(* Properties.                                                             *)
(***************************************************************************)
Returns(status) == pc = "returned" /\ IsSome(result) /\ Get(result).status = status
Started == pc # "idle"
CallsBy(by, id, method) ==
    { n \in Calls(method) : gwlog[n].by = by /\ gwlog[n].id = id }
LaunchedFlows == { id \in Flows : flow[id].pc # "none" }

\* C1: a requester key recognized as a sub-agent key makes execute() return
\* status "forbidden" and issue no "agent" request, whatever the other arguments.
C1_NoNestedSpawn ==
    (Started /\ args.agentSessionKey # <<>> /\ isSubagentSessionKey(args.agentSessionKey))
        => /\ Returns("forbidden")
           /\ Calls("agent") = {}

C1_Witness ==
    /\ Returns("forbidden")
    /\ isSubagentSessionKey(args.agentSessionKey)
    /\ args.model # <<>>
    /\ args.cleanup = "delete"
    /\ args.timeoutSeconds = [type |-> "finite", tenths |-> 10]

\* C2: however many times the announce claim is invoked for a runId, and in
\* whatever order its callers come, exactly one invocation returns true.
ClaimsOf(runId) == { n \in 1..Len(claimLog) : claimLog[n].runId = runId }
C2_ExactlyOnceClaim ==
    \A n \in 1..Len(claimLog) :
        Cardinality({ m \in ClaimsOf(claimLog[n].runId) : claimLog[m].ok }) = 1

\* Three invocations for one runId, the synchronous path among the losers.
C2_Witness ==
    /\ Len(claimLog) = 3
    /\ Cardinality(ClaimsOf(claimLog[1].runId)) = 3
    /\ \E n \in 1..Len(claimLog) : claimLog[n].by = 0 /\ ~claimLog[n].ok

\* C3: for one runId at most one Announce Flow is ever launched, and at most
\* one "send" is issued, whichever paths try to announce the run.
C3_AtMostOneAnnounce ==
    \A runId \in { flow[id].params.childRunId : id \in LaunchedFlows } :
        /\ Cardinality({ id \in LaunchedFlows : flow[id].params.childRunId = runId }) <= 1
        /\ Cardinality({ n \in Calls("send") :
                            flow[gwlog[n].id].params.childRunId = runId }) <= 1

\* Both paths tried to announce the run, and its one "send" went out.
C3_Witness ==
    /\ Len(claimLog) >= 2
    /\ \E n, m \in 1..Len(claimLog) : claimLog[n].by = 0 /\ claimLog[m].by # 0
    /\ Cardinality(Calls("send")) = 1

\* C4: once agent.wait has returned status "timeout", a chat.abort for the
\* child session and runId has been issued, the announce claim is not made,
\* no flow is launched and no "send" is issued, in that and every later state.
C4_TimeoutExcludesAnnounce ==
    (sp.waitStatus = Some("timeout"))
        => /\ \E n \in Calls("chat.abort") :
                gwlog[n].params = [sessionKey |-> sp.childSessionKey, runId |-> sp.childRunId]
           /\ claimLog = <<>>
           /\ sp.childRunId \notin announced
           /\ LaunchedFlows = {}
           /\ Calls("send") = {}
           /\ pc \in { "abort", "returned" }

C4_Witness ==
    /\ sp.waitStatus = Some("timeout")
    /\ Returns("timeout")
    /\ Calls("chat.abort") # {}

\* What the claims call a patch failure "classified as invalid / not allowed".
NamesInvalidModel(message) ==
    \/ Includes(message, <<"invalid", "model">>)
    \/ Includes(message, <<"model", "not", "allowed">>)
PatchRaised == args.model # <<>> /\ IsSome(sp.patchErr)
PatchMessage == MessageText(Get(sp.patchErr))

\* C5: when the model patch raises a message containing "invalid model" or
\* "model not allowed", the "agent" request is still issued and the result
\* execute() returns has modelApplied = false and a warning containing it.
C5_ModelOverrideRecoverable ==
    (PatchRaised /\ NamesInvalidModel(PatchMessage))
        => /\ CallsBy("execute", 0, "agent") # {}
           /\ pc = "returned" =>
                /\ Get(result).modelApplied = Some(FALSE)
                /\ IsSome(Get(result).warning)
                /\ Includes(Get(Get(result).warning), PatchMessage)

\* C6: when the model patch raises any other message, execute() returns status
\* "error" with that message and nothing of the run happens: no "agent", no
\* "agent.wait", no registration, no claim, no flow, no "send".
C6_FatalModelPatch ==
    (PatchRaised /\ ~NamesInvalidModel(PatchMessage))
        => /\ Returns("error")
           /\ Get(result).error = Some(PatchMessage)
           /\ Calls("agent") = {}
           /\ Calls("agent.wait") = {}
           /\ Calls("send") = {}
           /\ subagentRuns = {}
           /\ claimLog = <<>>
           /\ LaunchedFlows = {}

C6_Witness ==
    /\ PatchRaised
    /\ Get(sp.patchErr) = ErrorOf(<<"gateway", "closed">>)
    /\ Returns("error")

\* C7: whenever a model override is requested and the "agent" run start has
\* been issued, the sessions.patch carrying that model for the child session was
\* issued before it and has settled (applied, or failed recoverably); no such
\* patch is issued after the run start.
ModelPatches ==
    { m \in Calls("sessions.patch") :
        gwlog[m].params = [key |-> sp.childSessionKey, field |-> "model", value |-> args.model] }
C7_PatchBeforeRun ==
    \A n \in CallsBy("execute", 0, "agent") :
        args.model # <<>>
            => /\ \E m \in ModelPatches : m < n
               /\ \A m \in ModelPatches : m < n
               /\ pc # "modelPatch"
               /\ sp.modelApplied \/ IsSome(sp.modelWarning)

C7_Witness ==
    /\ args.model # <<>>
    /\ CallsBy("execute", 0, "agent") # {}
    /\ ModelPatches # {}
    /\ IsSome(sp.modelWarning)

\* C8: when the announce step's reply is missing, empty, whitespace only or
\* exactly the sentinel, the flow issues no "send"; with cleanup "delete" it goes
\* on to issue its one sessions.delete, with "keep" it ends without one.
SentinelOrEmpty(reply) ==
    \/ ~IsSome(reply)
    \/ Trim(Get(reply)) = <<>>
    \/ Get(reply) = ANNOUNCE_SKIP
C8_SuppressionSentinel ==
    \A id \in Flows :
        (IsSome(flow[id].announceReply) /\ SentinelOrEmpty(Get(flow[id].announceReply)))
            => /\ CallsBy("flow", id, "send") = {}
               /\ IF flow[id].params.cleanup = "delete"
                  THEN /\ flow[id].pc \in { "delete", "done" }
                       /\ Cardinality(CallsBy("flow", id, "sessions.delete")) = 1
                  ELSE /\ flow[id].pc = "done"
                       /\ CallsBy("flow", id, "sessions.delete") = {}

C8_Witness ==
    /\ flow[0].announceReply = Some(Some(ANNOUNCE_SKIP))
    /\ flow[0].params.cleanup = "delete"
    /\ flow[0].pc = "done"
    /\ CallsBy("flow", 0, "sessions.delete") # {}
    /\ Calls("send") = {}

\* C9: a run waited for (timeoutSeconds > 0) whose agent.wait returned "ok",
\* whose announce target was resolved and whose announce step replied with text
\* that is not empty, blank or the sentinel: execute() returned status "ok" with
\* the reply it read, and the flow goes on to issue exactly one "send", to the
\* resolved provider and address, its message the trimmed announce reply, a
\* blank line and a summary line that starts with "Stats:".
C9_Announcing ==
    /\ sp.timeoutSeconds > 0
    /\ sp.waitStatus = Some("ok")
    /\ IsSome(flow[0].target)
    /\ IsSome(flow[0].announceReply)
    /\ ~SentinelOrEmpty(Get(flow[0].announceReply))
C9_Opening == Trim(Get(Get(flow[0].announceReply))) \o <<"\n\n", "Stats:">>
C9_IsAnnouncement(n) ==
    /\ gwlog[n].by = "flow"
    /\ gwlog[n].id = 0
    /\ gwlog[n].params.to = Get(flow[0].target).to
    /\ gwlog[n].params.provider = Get(flow[0].target).provider
    /\ Len(gwlog[n].params.message) > Len(C9_Opening)
    /\ SubSeq(gwlog[n].params.message, 1, Len(C9_Opening)) = C9_Opening
C9_Sent ==
    /\ Cardinality(Calls("send")) = 1
    /\ \A n \in Calls("send") : C9_IsAnnouncement(n)
C9_Safe ==
    C9_Announcing
        => /\ Returns("ok")
           /\ Get(result).reply = sp.replyText
           /\ Cardinality(Calls("send")) <= 1
           /\ \A n \in Calls("send") : C9_IsAnnouncement(n)
           /\ flow[0].pc \in { "send", "delete", "done" } => C9_Sent
C9_EndToEndAnnounce == [](C9_Safe) /\ (C9_Announcing ~> C9_Sent)

C9_Witness ==
    /\ C9_Announcing
    /\ C9_Sent
    /\ flow[0].announceReply = Some(Some(<<" ", "announce", "now", " ">>))
    /\ flow[0].pc = "done"
    /\ Returns("ok")

\* C10: whatever each gateway request of execute() settles with, execute()
\* returns a result whose status is forbidden, error, timeout, accepted or ok:
\* nothing a request raises leaves execute() as an exception.
C10_DefiniteStatus ==
    /\ pc # "threw"
    /\ pc = "returned" =>
         /\ IsSome(result)
         /\ Get(result).status \in { "forbidden", "error", "timeout", "accepted", "ok" }

\* The run start was issued and settled without raising.
AgentStarted ==
    /\ CallsBy("execute", 0, "agent") # {}
    /\ pc # "agent"
    /\ ~IsSome(sp.agentErr)

\* C11: with timeoutSeconds 0 or left out and the run started, execute() returns
\* status "accepted" with childSessionKey and runId, issues no agent.wait, makes
\* no announce claim and launches no flow; and as long as no other path has
\* claimed the runId, no "send" has been issued.
C11_FireAndForget ==
    (AgentStarted /\ sp.timeoutSeconds = 0)
        => /\ Returns("accepted")
           /\ Get(result).childSessionKey = Some(sp.childSessionKey)
           /\ Get(result).runId = Some(sp.childRunId)
           /\ CallsBy("execute", 0, "agent.wait") = {}
           /\ \A n \in 1..Len(claimLog) : claimLog[n].by # 0
           /\ flow[0].pc = "none"
           /\ ClaimsOf(sp.childRunId) = {} => Calls("send") = {}

\* The argument left out, the run accepted, nobody has claimed it.
C11_Witness ==
    /\ args.timeoutSeconds.type = "undefined"
    /\ Returns("accepted")
    /\ subagentRuns # {}
    /\ claimLog = <<>>
    /\ Calls("send") = {}

\* C12: no flow ever ends in an exception, whichever of its requests (own
\* agent.wait, reply read, sessions.list, announce step, send, sessions.delete)
\* raises; a launched flow goes on to complete.
C12_AnnounceIsolation ==
    /\ [](\A id \in Flows : flow[id].pc # "threw")
    /\ (flow[0].pc # "none") ~> (flow[0].pc = "done")

\* The send raised, the delete was still issued and the flow completed.
C12_Witness ==
    /\ flow[0].pc = "done"
    /\ flow[0].exit = "raised"
    /\ CallsBy("flow", 0, "send") # {}
    /\ CallsBy("flow", 0, "sessions.delete") # {}

\* C13: a flow invoked with cleanup "delete" has issued no sessions.delete
\* while it is in its try block and exactly one, for the child session key with
\* deleteTranscript true, once it has left it, however it left it (sent,
\* suppressed, wait not ok, no target, a raised failure); the flow is never
\* left by an exception.
C13_CleanupOnEveryExit ==
    \A id \in Flows :
        (flow[id].pc # "none" /\ flow[id].params.cleanup = "delete")
            => /\ flow[id].pc # "threw"
               /\ flow[id].pc = "done" => flow[id].exit # "none"
               /\ Cardinality(CallsBy("flow", id, "sessions.delete"))
                      = (IF flow[id].exit = "none" THEN 0 ELSE 1)
               /\ \A n \in CallsBy("flow", id, "sessions.delete") :
                      gwlog[n].params = [key |-> flow[id].params.childSessionKey,
                                         deleteTranscript |-> TRUE]

\* The flow's own wait did not return "ok"; the session was deleted all the same.
C13_Witness ==
    /\ flow[0].params.cleanup = "delete"
    /\ flow[0].exit = "notok"
    /\ flow[0].pc = "done"
    /\ Cardinality(CallsBy("flow", 0, "sessions.delete")) = 1

\* C14: a cleanup argument that is "keep", left out or anything but "delete"
\* makes the policy "keep" (in execute(), in the registered record and in the
\* flow's parameters) and no sessions.delete is ever issued.
C14_DefaultRetention ==
    (Started /\ args.cleanup # "delete")
        => /\ sp.cleanup = "keep"
           /\ \A run \in subagentRuns : run.cleanup = "keep"
           /\ \A id \in LaunchedFlows : flow[id].params.cleanup = "keep"
           /\ Calls("sessions.delete") = {}

\* An unknown cleanup value, the announcement sent, the flow over.
C14_Witness ==
    /\ args.cleanup = "purge"
    /\ flow[0].pc = "done"
    /\ flow[0].exit = "sent"
    /\ Calls("sessions.delete") = {}

\* The message of the send a flow has issued.
SentMessages(id) == { gwlog[n].params.message : n \in CallsBy("flow", id, "send") }

\* C15: when the token counts are not in the store at the first read and are
\* there from the second re-read on, the summary sent carries the entry's
\* token counts (and not "tokens n/a").
C15_LateArrival ==
    \A id \in Flows :
        (flow[id].pc = "send" /\ IsSome(flow[id].usage) /\ Get(flow[id].usage).appearsAt = 2)
            => \A message \in SentMessages(id) :
                 /\ Includes(message, <<"tokens", "1.5k", "(in", "1.2k", "/", "out", "300)">>)
                 /\ ~Includes(message, <<"tokens", "n/a">>)

\* What the polling loop has done by the time the summary is built.
C16_Safe ==
    \A id \in Flows :
        LET f == flow[id] IN
        /\ f.attempt <= MaxPollAttempts
        /\ f.pc = "poll" => /\ f.attempt < MaxPollAttempts
                            /\ IsSome(f.entry) /\ ~hasTokens(f.entry)
        /\ (f.pc = "send" /\ IsSome(f.usage))
              => LET t == Get(f.usage) IN
                 /\ t.before = "bare" => f.attempt = Min(t.appearsAt, MaxPollAttempts)
                 /\ (t.appearsAt > MaxPollAttempts)
                       => \A message \in SentMessages(id) :
                             Includes(message, <<"tokens", "n/a">>)

\* C16: the loop re-reads the store at most 4 times, stops at the first read
\* that has a token field and always ends; when the counts do not appear within
\* those reads the summary says "tokens n/a" and the announcement is still sent.
C16_BoundedGiveUp ==
    /\ [](C16_Safe)
    /\ (flow[0].pc = "poll") ~> (flow[0].pc = "send")

\* Four re-reads found no counts: the summary sent says "tokens n/a".
C16_Witness ==
    /\ flow[0].pc = "send"
    /\ flow[0].attempt = MaxPollAttempts
    /\ flow[0].usage = Some([before |-> "bare", appearsAt |-> MaxPollAttempts + 1])
    /\ \E message \in SentMessages(0) : Includes(message, <<"tokens", "n/a">>)

\* C17: once agent.wait has returned status "error", execute() has returned
\* status "error" with the gateway's error text, or "agent error" when there is
\* none; no claim is made, no flow launched, no chat.abort and no "send" issued.
C17_WaitErrorPath ==
    (sp.waitStatus = Some("error"))
        => /\ Returns("error")
           /\ Get(result).error =
                 (IF IsSome(sp.waitError) THEN sp.waitError ELSE Some(<<"agent", "error">>))
           /\ claimLog = <<>>
           /\ announced = {}
           /\ LaunchedFlows = {}
           /\ Calls("chat.abort") = {}
           /\ Calls("chat.history") = {}
           /\ Calls("send") = {}

C17_Witness ==
    /\ sp.waitStatus = Some("error")
    /\ sp.waitError = None
    /\ Returns("error")
    /\ Get(result).error = Some(<<"agent", "error">>)

\* C18: once agent.wait has returned "ok" and the read of the reply has
\* settled, execute() has returned status "ok" with the reply read, has made
\* exactly one announce claim for the runId and has launched the flow exactly
\* when that claim returned true; the result is the same whatever the claim
\* returned and whatever the flow does.
C18_OkPath ==
    (sp.waitStatus = Some("ok") /\ pc \notin { "wait", "read" })
        => /\ Returns("ok")
           /\ Get(result).reply = sp.replyText
           /\ Get(result).childSessionKey = Some(sp.childSessionKey)
           /\ Get(result).runId = Some(sp.childRunId)
           /\ Cardinality({ n \in ClaimsOf(sp.childRunId) : claimLog[n].by = 0 }) = 1
           /\ \A n \in ClaimsOf(sp.childRunId) :
                 claimLog[n].by = 0 => (claimLog[n].ok <=> flow[0].pc # "none")

\* The record registerSubagentRun is handed for this spawn.
C19_Record ==
    [ runId |-> sp.childRunId,
      childSessionKey |-> sp.childSessionKey,
      requesterSessionKey |-> sp.requesterInternalKey,
      requesterDisplayKey |-> sp.requesterDisplayKey,
      task |-> task,
      cleanup |-> IF args.cleanup = "delete" THEN "delete" ELSE "keep" ]

\* C19: the run is in the registry exactly when the run start has succeeded,
\* with its runId, child key, internal and display requester keys, task and
\* cleanup; it is there whenever execute() has issued agent.wait or returned
\* "accepted", for timeoutSeconds 0 and above.
C19_Registration ==
    /\ subagentRuns = (IF AgentStarted THEN { C19_Record } ELSE {})
    /\ CallsBy("execute", 0, "agent.wait") # {} => subagentRuns # {}
    /\ Returns("accepted") => subagentRuns # {}

C19_Witness ==
    /\ Returns("accepted")
    /\ sp.timeoutSeconds = 0
    /\ subagentRuns = { C19_Record }
    /\ args.cleanup = "delete"
    /\ args.agentSessionKey = <<"discord", "group", "req">>

\* A fatal failure during setup: the model patch failed for another reason
\* than the model, or the run start failed.
FatalPatchFailure == PatchRaised /\ ~Recoverable(PatchMessage)
FatalSetupFailure == FatalPatchFailure \/ IsSome(sp.agentErr)
FatalMessage ==
    IF IsSome(sp.agentErr) THEN MessageText(Get(sp.agentErr)) ELSE PatchMessage
NothingOfTheRun ==
    /\ subagentRuns = {}
    /\ Calls("agent.wait") = {}
    /\ claimLog = <<>>
    /\ LaunchedFlows = {}
    /\ Calls("send") = {}

\* C20 (as claimed): after a fatal setup failure execute() has returned status
\* "error" with the failure's message, childSessionKey and runId, and nothing
\* of the run happens.
C20_FatalSetupFailure ==
    FatalSetupFailure
        => /\ Returns("error")
           /\ Get(result).error = Some(FatalMessage)
           /\ Get(result).childSessionKey = Some(sp.childSessionKey)
           /\ IsSome(Get(result).runId)
           /\ NothingOfTheRun

\* C20 (amended): as claimed, but the result carries a runId only when it is
\* the run start that failed; a failed model patch returns before a runId
\* exists and the result carries the message and childSessionKey alone.
C20_FatalSetupFailureAmended ==
    FatalSetupFailure
        => /\ Returns("error")
           /\ Get(result).error = Some(FatalMessage)
           /\ Get(result).childSessionKey = Some(sp.childSessionKey)
           /\ Get(result).runId =
                 (IF IsSome(sp.agentErr) THEN Some(sp.childRunId) ELSE None)
           /\ IsSome(sp.agentErr) => sp.childRunId = sp.childIdem
           /\ NothingOfTheRun

\* The model patch failed for good: the result has the child key and no runId.
C20_Witness ==
    /\ FatalPatchFailure
    /\ Returns("error")
    /\ Get(result).childSessionKey = Some(sp.childSessionKey)
    /\ Get(result).runId = None


\* C21: a flow for which no announce target was resolved has run no nested
\* announce step and issued no "send", and it still reaches the finally block:
\* one sessions.delete when cleanup is "delete", none otherwise.
C21_NoTargetNoAnnounce ==
    \A id \in Flows :
        /\ ~IsSome(flow[id].target)
              => /\ CallsBy("flow", id, "agent") = {}
                 /\ CallsBy("flow", id, "send") = {}
        /\ flow[id].exit = "notarget"
              => /\ flow[id].pc \in { "delete", "done" }
                 /\ Cardinality(CallsBy("flow", id, "sessions.delete"))
                      = IF flow[id].params.cleanup = "delete" THEN 1 ELSE 0

\* The target list came back without a target and the child session is deleted.
C21_Witness ==
    \E id \in Flows :
        /\ flow[id].exit = "notarget"
        /\ flow[id].pc = "done"
        /\ CallsBy("flow", id, "sessions.list") # {}
        /\ CallsBy("flow", id, "sessions.delete") # {}

FlowWaits(id) == CallsBy("flow", id, "agent.wait")
FlowReads(id) == CallsBy("flow", id, "chat.history")
PastTheReads(id) == flow[id].pc \in { "target", "step", "poll", "send" }

\* C22: a flow given a non-empty roundOneReply issues no agent.wait (and no
\* read); otherwise, unless waitForCompletion is false, it issues exactly one
\* agent.wait, for the run and with timeoutMs = min(timeoutMs, 60000); it reads
\* the reply only after that wait returned "ok", and any other returned status
\* ends it with no read, no announce step and no "send"; a second read is made
\* exactly when the reply is still empty after the first.
C22_FinalReply ==
    \A id \in LaunchedFlows :
        LET p == flow[id].params
            f == flow[id] IN
        /\ Truthy(p.roundOneReply) => (FlowWaits(id) = {} /\ FlowReads(id) = {})
        /\ (~Truthy(p.roundOneReply) /\ p.waitForCompletion = Some(FALSE))
              => FlowWaits(id) = {}
        /\ (~Truthy(p.roundOneReply) /\ p.waitForCompletion # Some(FALSE))
              => /\ Cardinality(FlowWaits(id)) = 1
                 /\ \A n \in FlowWaits(id) :
                      gwlog[n].params =
                        [runId |-> p.childRunId,
                         timeoutMs |-> IF p.timeoutMs <= 60000 THEN p.timeoutMs ELSE 60000]
        /\ (FlowWaits(id) # {} /\ FlowReads(id) # {}) => f.waited = Some(Some("ok"))
        /\ (IsSome(f.waited) /\ f.waited # Some(Some("ok")))
              => /\ f.exit = "notok"
                 /\ FlowReads(id) = {}
                 /\ CallsBy("flow", id, "agent") = {}
                 /\ CallsBy("flow", id, "send") = {}
        /\ Cardinality(FlowReads(id)) <= (IF FlowWaits(id) = {} THEN 1 ELSE 2)
        /\ (PastTheReads(id) /\ ~Truthy(f.reply))
              => Cardinality(FlowReads(id)) = (IF FlowWaits(id) = {} THEN 1 ELSE 2)
        /\ (PastTheReads(id) /\ FlowWaits(id) # {} /\ Cardinality(FlowReads(id)) = 1)
              => Truthy(f.reply)

\* A flow with a budget above the cap waited 60000 ms, got "ok" and read twice.
C22_Witness ==
    \E id \in LaunchedFlows :
        /\ flow[id].params.timeoutMs > 60000
        /\ \E n \in FlowWaits(id) : gwlog[n].params.timeoutMs = 60000
        /\ flow[id].waited = Some(Some("ok"))
        /\ Cardinality(FlowReads(id)) = 2
        /\ PastTheReads(id)

\* An agent.wait for the run of flow id that returned with the run over.
CompletedWait(m, id) ==
    /\ gwlog[m].method = "agent.wait"
    /\ gwlog[m].params.runId = flow[id].params.childRunId
    /\ \/ /\ gwlog[m].by = "execute"
          /\ pc \notin { "agent", "wait", "abort" }
          /\ sp.waitStatus \notin { Some("timeout"), Some("error") }
       \/ /\ gwlog[m].by = "flow"
          /\ gwlog[m].id = id
          /\ flow[id].waited = Some(Some("ok"))

C24_DeliveryByFlowOnly ==
    /\ \A n \in CallsBy("execute", 0, "agent") :
         gwlog[n].params.deliver = FALSE /\ gwlog[n].params.lane = "subagent"
    /\ \A n \in Calls("send") :
         /\ gwlog[n].by = "flow"
         /\ LET f == flow[gwlog[n].id] IN
            /\ IsSome(f.announceReply)
            /\ ~SentinelOrEmpty(Get(f.announceReply))
            /\ \E m \in CallsBy("flow", gwlog[n].id, "agent") : m < n

\* The spawn returned ok and its flow has sent the announcement.
C24_Witness ==
    /\ Returns("ok")
    /\ CallsBy("execute", 0, "agent") # {}
    /\ CallsBy("flow", 0, "send") # {}

\* C25: whenever execute() returns status "timeout", it has issued a chat.abort
\* for the child session and runId.
C25_TimeoutImpliesAbort ==
    Returns("timeout")
        => \E n \in CallsBy("execute", 0, "chat.abort") :
               gwlog[n].params = [sessionKey |-> sp.childSessionKey, runId |-> sp.childRunId]


\* C26: once agent.wait has returned "timeout", one chat.abort is issued and,
\* whether it returns or raises, execute() returns status "timeout" with the
\* wait's error, childSessionKey, runId and the model status of the patch step:
\* the result does not depend on how the abort went.
C26_AbortAdvisory ==
    (sp.waitStatus = Some("timeout"))
        => /\ Cardinality(CallsBy("execute", 0, "chat.abort")) = 1
           /\ pc \in { "abort", "returned" }
           /\ pc = "returned" =>
                /\ Get(result).status = "timeout"
                /\ Get(result).error = sp.waitError
                /\ Get(result).childSessionKey = Some(sp.childSessionKey)
                /\ Get(result).runId = Some(sp.childRunId)
                /\ Get(result).reply = None
                /\ Get(result).modelApplied =
                     (IF args.model = <<>> THEN None ELSE Some(~PatchRaised))
                /\ Get(result).warning =
                     (IF PatchRaised THEN Some(PatchMessage) ELSE None)

\* The abort raised after a recoverable patch failure; the result is "timeout".
C26_Witness ==
    /\ sp.waitStatus = Some("timeout")
    /\ IsSome(sp.abortErr)
    /\ Returns("timeout")
    /\ IsSome(Get(result).warning)

\* The run's identifier: the gateway's runId when it is a non-empty string,
\* otherwise the idempotency key sent with the run start.
C27_SentKey == gwlog[CHOOSE n \in CallsBy("execute", 0, "agent") : TRUE].params.idempotencyKey
C27_RunId ==
    IF /\ IsSome(sp.agentResponse)
       /\ IsSome(Get(sp.agentResponse))
       /\ Get(Get(sp.agentResponse)) # ""
    THEN Get(Get(sp.agentResponse))
    ELSE C27_SentKey

\* C27: once the run start has settled, the registration record, every
\* agent.wait and chat.abort of execute(), the announce claim, the flow's
\* parameters and the returned result all carry the same runId: the gateway's
\* when it is a non-empty string, otherwise the idempotency key that was sent.
C27_RunIdConsistency ==
    (CallsBy("execute", 0, "agent") # {} /\ pc # "agent")
        => /\ \A r \in subagentRuns : r.runId = C27_RunId
           /\ \A n \in CallsBy("execute", 0, "agent.wait") : gwlog[n].params.runId = C27_RunId
           /\ \A n \in CallsBy("execute", 0, "chat.abort") : gwlog[n].params.runId = C27_RunId
           /\ \A n \in 1..Len(claimLog) : claimLog[n].runId = C27_RunId
           /\ flow[0].pc # "none" => flow[0].params.childRunId = C27_RunId
           /\ pc = "returned" => Get(result).runId = Some(C27_RunId)
           /\ IsSome(sp.agentResponse) => subagentRuns # {}

\* The gateway returned an empty runId: the key that was sent names the run in
\* the registration, the wait, the claim and the result.
C27_Witness ==
    /\ sp.agentResponse = Some(Some(""))
    /\ Returns("ok")
    /\ Get(result).runId = Some(C27_SentKey)
    /\ \E r \in subagentRuns : r.runId = C27_SentKey
    /\ \E n \in CallsBy("execute", 0, "agent.wait") : gwlog[n].params.runId = C27_SentKey
    /\ Len(claimLog) = 1

\* C28: an "accepted", "timeout" or "ok" result, or an "error" result that
\* reports the wait's error status, has modelApplied absent when no model was
\* asked for, true when the patch succeeded, false when it failed recoverably,
\* and a warning exactly in that last case.
C28_ModelStatusReported ==
    (/\ pc = "returned"
     /\ \/ Get(result).status \in { "accepted", "timeout", "ok" }
        \/ Get(result).status = "error" /\ sp.waitStatus = Some("error"))
        => /\ Get(result).modelApplied =
                (IF args.model = <<>> THEN None ELSE Some(~PatchRaised))
           /\ IsSome(Get(result).warning) <=> PatchRaised

\* C29: execute() makes the announce claim, launches the flow and returns
\* status "ok" only when agent.wait returned status "ok".
C29_AnnounceGatedOnOk ==
    (claimLog # <<>> \/ LaunchedFlows # {} \/ Returns("ok"))
        => sp.waitStatus = Some("ok")

FlowDeletes(id) == CallsBy("flow", id, "sessions.delete")
FlowOtherCalls(id) ==
    { n \in 1..Len(gwlog) :
        gwlog[n].by = "flow" /\ gwlog[n].id = id /\ gwlog[n].method # "sessions.delete" }

\* C30: in one flow the sessions.delete, when there is one, is for the child
\* session, comes after every other request of the flow and is issued with none
\* of them outstanding; a flow issues at most one "send" and one sessions.delete.
C30_CleanupLast ==
    \A id \in Flows :
        /\ \A d \in FlowDeletes(id) :
             /\ gwlog[d].params.key = flow[id].params.childSessionKey
             /\ flow[id].params.cleanup = "delete"
             /\ flow[id].pc \in { "delete", "done" }
             /\ \A n \in FlowOtherCalls(id) : n < d
        /\ Cardinality(FlowDeletes(id)) <= 1
        /\ Cardinality(CallsBy("flow", id, "send")) <= 1

\* The flow waited, read, ran the announce step, sent, and then deleted.
C30_Witness ==
    \E id \in Flows :
        /\ flow[id].pc = "done"
        /\ flow[id].exit = "sent"
        /\ \E d \in FlowDeletes(id) :
             /\ \E n \in CallsBy("flow", id, "send") : n < d
             /\ \E n \in CallsBy("flow", id, "agent") : n < d
             /\ \E n \in FlowReads(id) : n < d


TagPatches ==
    { n \in CallsBy("execute", 0, "sessions.patch") : gwlog[n].params.field = "spawnedBy" }
C31_RequesterKey ==
    IF args.agentSessionKey # <<>> THEN resolveInternalSessionKey(args.agentSessionKey)
    ELSE alias

\* C31: a tool created with sandboxed = true issues one sessions.patch with
\* spawnedBy = the requester's internal key for the child session, before the
\* model patch and before the run start; when that patch raises, the spawn goes
\* on to the model patch or the run start, and an "error" result after it comes
\* from a later failure; a tool not sandboxed issues no such patch.
C31_BestEffortOwnershipTag ==
    /\ args.sandboxed # TRUE => (TagPatches = {} /\ ~sp.tagFailed)
    /\ (args.sandboxed = TRUE /\ Started /\ ~Returns("forbidden"))
          => /\ Cardinality(TagPatches) = 1
             /\ \A n \in TagPatches :
                  /\ gwlog[n].params = [key |-> sp.childSessionKey, field |-> "spawnedBy",
                                        value |-> C31_RequesterKey]
                  /\ \A m \in ModelPatches \cup CallsBy("execute", 0, "agent") : n < m
    /\ sp.tagFailed
          => /\ pc \notin { "idle", "tagPatch" }
             /\ IF args.model # <<>> THEN ModelPatches # {}
                ELSE CallsBy("execute", 0, "agent") # {}
             /\ Returns("error")
                  => \/ FatalSetupFailure
                     \/ CallsBy("execute", 0, "agent.wait") # {}

\* The ownership patch raised; the model was applied and the spawn returned ok.
C31_Witness ==
    /\ args.sandboxed = TRUE
    /\ sp.tagFailed
    /\ args.model # <<>>
    /\ Returns("ok")
    /\ Get(result).modelApplied = Some(TRUE)
    /\ \E n \in TagPatches : \E m \in ModelPatches : n < m

\* The effective wait budget, in seconds, from the argument.
C32_Seconds ==
    IF args.timeoutSeconds.type # "finite" \/ args.timeoutSeconds.tenths < 10 THEN 0
    ELSE CHOOSE k \in 1..(MaxTimeoutSeconds + 1) :
             10 * k <= args.timeoutSeconds.tenths /\ args.timeoutSeconds.tenths < 10 * (k + 1)

\* C32: once the run has started, execute() issues agent.wait exactly when the
\* effective timeoutSeconds (0 for a missing, non-number or non-finite argument,
\* otherwise max(0, floor(argument))) is above 0, once, with timeoutMs = 1000
\* times it and an RPC timeout 2000 ms longer; with 0 it returns "accepted".
C32_WaitBudget ==
    AgentStarted
        => /\ sp.timeoutSeconds = C32_Seconds
           /\ CallsBy("execute", 0, "agent.wait") # {} <=> C32_Seconds > 0
           /\ Cardinality(CallsBy("execute", 0, "agent.wait")) <= 1
           /\ \A n \in CallsBy("execute", 0, "agent.wait") :
                /\ gwlog[n].params.timeoutMs = 1000 * C32_Seconds
                /\ gwlog[n].params.rpcTimeoutMs = 1000 * C32_Seconds + 2000
           /\ C32_Seconds = 0 => Returns("accepted")

\* An argument of 0.5 second: the run is started and not waited for.
C32_Witness ==
    /\ args.timeoutSeconds = [type |-> "finite", tenths |-> 5]
    /\ AgentStarted
    /\ Returns("accepted")
    /\ Calls("agent.wait") = {}

====
